---- MODULE Spec2Model ----
(***************************************************************************)
(* Document retrieval subsystem of the session-recording backend:          *)
(*   - documents/utils.py    chunk_text, search_documents (FAISS revision) *)
(*   - documents/views.py    DocumentViewSet.search, retry_processing      *)
(*   - documents/services.py DocumentService.upload_document               *)
(* Each subsystem has its own specification over the shared variables.     *)
(***************************************************************************)
EXTENDS Integers, Sequences, FiniteSets, TLC

\* ------------------------------------------------------------------ bounds
\* longest input text handed to chunk_text with any chunk_size
MaxLen == 6
\* longest input text handed to chunk_text; texts longer than MaxLen are
\* chunked with the largest chunk_size only
MaxLongLen == 8
\* largest chunk_size argument
MaxChunk == 7
\* largest overlap argument
MaxOverlap == 5
\* most loop iterations of chunk_text that are followed (the loop of a call
\* that makes no progress appends chunks for ever)
MaxIter == 6

\* most Document records ever created (ids are never reused)
MaxDocs == 2
\* most DocumentChunk rows ever stored (ids are never reused)
MaxChunks == 2
\* largest limit argument of a direct search_documents call
MaxLimit == 2

\* concurrent calls of DocumentService.upload_document
MaxUploads == 2
\* concurrent deletions, through the API or the service
MaxDeletes == 2
\* documents added to the ChromaDB collection
MaxChromaDocs == 3
\* upload_chunk requests, concurrent or one after the other
MaxRequests == 2
\* steps of the clock, of TickSeconds seconds each, from Epoch
MaxTicks == 2
\* transcriptions of one session stored before the insight runs, and
\* transcriptions stored in all while they run
InitialStored == 5
MaxTranscriptions == 8
TickSeconds == 10
Epoch == 100

VARIABLES
    \* ---- the database (documents/models.py)
    documents,    \* Document table: id -> [status, openai_file_id]
    next_doc_id,  \* ids are fresh (uuid4): the next id never used before
    chunk_rows,   \* DocumentChunk table: id -> [document, embedding]
    next_chunk_id,\* the next chunk id never used before
    \* ---- one search_documents call at a time (documents/utils.py:193-266)
    s_pc,         \* "idle", "exists", "fetch", "format", "returned", "raised"
    s_view,       \* TRUE when called by DocumentViewSet.search
    s_filter,     \* document_filter: "ALL" (None) or Q(status=...)
    s_limit,      \* limit
    s_query,      \* the embedding of the query
    chunks_list,  \* local chunks_list: the instances the index was built from
    s_I,          \* local I[0]: the indices FAISS returned
    s_i,          \* position of the result-formatting loop in I[0]
    results,      \* local results: [chunk_id, document_id] in result order
    s_begin,      \* history: what was deleted / searchable when the call started
    s_read,       \* history: what was visible at the call's latest chunk query
    \* ---- DocumentService.upload_document (documents/services.py:15-119)
    env_api_key,          \* whether OPENAI_API_KEY is set
    env_vector_store_id,  \* os.environ.get('VECTOR_STORE_ID'): NULL when unset
    remote_files,         \* the files OpenAI holds
    next_file_id,         \* OpenAI file ids are fresh
    delete_attempts,      \* history: file id -> number of files.delete calls
    up,                   \* per call: its position and locals
    \* ---- delete_document (documents/services.py:201-245, api.py:278-303)
    uploaded_by,  \* Document.uploaded_by: id -> user
    local_files,  \* ids of the documents whose uploaded file is on disk
    dl,           \* per call: its position and locals
    \* ---- ChromaVectorStore and the agent tools (vector_store.py, tools.py)
    collection,   \* the ChromaDB collection: entries [id, metadata]
    ch_call,      \* the latest tool call: [tool, campaign_id, limit]
    ch_results,   \* the entries behind the results of the latest tool call
    \* ---- recorder (recorder/views.py, recorder/models.py)
    transcriptions,     \* Transcription table: id -> [session, chunk_number, text, by]
    next_tr_id,         \* the next Transcription id (ids grow with creation)
    settings_model,     \* settings.TRANSCRIPTION_MODEL
    clock,              \* time.time()
    last_summary_time,  \* the global last_summary_time
    starts,             \* history: the automatic insight runs started, in order
    rq,                 \* per upload_chunk request: its position and locals
    sm,                 \* one summarize_latest_transcriptions call
    \* ---- chunk_text (documents/utils.py:78-122)
    ct_pc,        \* "loop" while in the while loop, "done" after return
    ct_raw,       \* the text argument as passed in
    text,         \* the local text after whitespace normalisation
    chunk_size,   \* argument
    overlap,      \* argument
    start,        \* loop variable
    chunks,       \* the list being built / returned
    windows       \* history: <<start, end>> of every iteration, in order

chunkVars == <<ct_pc, ct_raw, text, chunk_size, overlap, start, chunks, windows>>
dbVars == <<documents, next_doc_id, chunk_rows, next_chunk_id>>
searchVars == <<s_pc, s_view, s_filter, s_limit, s_query, chunks_list, s_I, s_i,
                results, s_begin, s_read>>
uploadVars == <<env_api_key, env_vector_store_id, remote_files, next_file_id,
                delete_attempts, up>>
deleteVars == <<uploaded_by, local_files, dl>>
chromaVars == <<collection, ch_call, ch_results>>
recorderVars == <<transcriptions, next_tr_id, settings_model, clock,
                  last_summary_time, starts, rq, sm>>
extVars == <<deleteVars, chromaVars, recorderVars>>
vars == <<chunkVars, dbVars, searchVars, uploadVars, extVars>>

\* ------------------------------------------------------------- characters
\* characters the input texts are drawn from: a letter, the period and the
\* space (runs of spaces exercise the whitespace normalisation)
Alphabet == {"a", ".", " "}
\* what the regular expression class \s and str.strip() treat as whitespace
Whitespace == {" ", "\n", "\t"}

Texts == UNION {[1..n -> Alphabet] : n \in 0..MaxLongLen}

Min(a, b) == IF a < b THEN a ELSE b
Max(a, b) == IF a > b THEN a ELSE b

\* ------------------------------------------------ Python string primitives
\* Python's index adjustment for s[i:j], s.rfind(x, i, j): a negative index
\* counts from the end, then both are clamped into 0..len(s)
AdjustIndex(i, n) == IF i < 0 THEN Max(i + n, 0) ELSE Min(i, n)

\* s[i:j] with 0-based Python indices (possibly negative)
Slice(s, i, j) ==
    LET lo == AdjustIndex(i, Len(s))
        hi == AdjustIndex(j, Len(s))
    IN  IF lo >= hi THEN <<>> ELSE SubSeq(s, lo + 1, hi)

\* s.rfind(sub, i, j): highest 0-based index p with i <= p, p+len(sub) <= j
\* (after index adjustment) where sub occurs, or -1
RFind(s, sub, i, j) ==
    LET lo == AdjustIndex(i, Len(s))
        hi == AdjustIndex(j, Len(s))
        hits == {p \in lo..(hi - Len(sub)) :
                    SubSeq(s, p + 1, p + Len(sub)) = sub}
    IN  IF hits = {} THEN -1 ELSE CHOOSE p \in hits : \A q \in hits : q <= p

\* s.lstrip(), s.rstrip(), s.strip()
RECURSIVE LStrip(_)
LStrip(s) == IF s # <<>> /\ Head(s) \in Whitespace THEN LStrip(Tail(s)) ELSE s
RECURSIVE RStrip(_)
RStrip(s) ==
    IF s # <<>> /\ s[Len(s)] \in Whitespace
    THEN RStrip(SubSeq(s, 1, Len(s) - 1)) ELSE s
Strip(s) == LStrip(RStrip(s))

\* re.sub(r'\s+', ' ', s): every maximal run of whitespace becomes one space
RECURSIVE CollapseWhitespace(_)
CollapseWhitespace(s) ==
    IF s = <<>> THEN <<>>
    ELSE IF Head(s) \in Whitespace
         THEN <<" ">> \o CollapseWhitespace(LStrip(s))
         ELSE <<Head(s)>> \o CollapseWhitespace(Tail(s))

\* utils.py:94  text = re.sub(r'\s+', ' ', text).strip()
Normalise(s) == Strip(CollapseWhitespace(s))

\* ------------------------------------------------------------- chunk_text
\* WindowEnd with chunk_size taken as an inclusive last index
\* (end = min(start + chunk_size + 1, len(text)))
WindowEndInclusive(t, st, cs) ==
    LET end0 == Min(st + cs + 1, Len(t))
        sentence_break == RFind(t, <<".", " ">>, st, end0)
        space_break == RFind(t, <<" ">>, st, end0)
    IN  IF end0 < Len(t)
        THEN IF sentence_break # -1 /\ sentence_break > st + (cs \div 2)
             THEN sentence_break + 1
             ELSE IF space_break # -1 /\ space_break > st + (cs \div 2)
                  THEN space_break
                  ELSE end0
        ELSE end0

\* utils.py:102-114: the end of the window that starts at st
WindowEnd(t, st, cs) ==
    LET end0 == Min(st + cs, Len(t))
        sentence_break == RFind(t, <<".", " ">>, st, end0)
        space_break == RFind(t, <<" ">>, st, end0)
    IN  IF end0 < Len(t)
        THEN IF sentence_break # -1 /\ sentence_break > st + (cs \div 2)
             THEN sentence_break + 1
             ELSE IF space_break # -1 /\ space_break > st + (cs \div 2)
                  THEN space_break
                  ELSE end0
        ELSE end0

\* ChunkOf slicing the text argument instead of the normalised local
ChunkOfRaw(t, st, en) == Strip(Slice(ct_raw, st, en))

\* utils.py:117: the chunk appended for the window [st, en)
ChunkOf(t, st, en) == Strip(Slice(t, st, en))

\* utils.py:120: where the next window starts
NextStart(t, en, ov) == IF en < Len(t) THEN en - ov ELSE Len(t)

\* no chunk_text call is modelled
IdleChunk ==
    /\ ct_pc = "idle"
    /\ ct_raw = <<>>
    /\ text = <<>>
    /\ chunk_size = 1
    /\ overlap = 0
    /\ start = 0
    /\ chunks = <<>>
    /\ windows = <<>>

\* the call: arguments are bound, "if not text: return []", normalisation
EnterChunkText ==
    /\ ct_raw \in Texts
    /\ chunk_size \in 1..MaxChunk
    /\ overlap \in 0..MaxOverlap
    /\ (Len(ct_raw) <= MaxLen \/ chunk_size = MaxChunk)
    /\ text = IF ct_raw = <<>> THEN <<>> ELSE Normalise(ct_raw)
    /\ start = 0
    /\ chunks = <<>>
    /\ windows = <<>>
    /\ ct_pc = "loop"

\* one iteration of the while loop (utils.py:101-120)
ChunkStep ==
    /\ ct_pc = "loop"
    /\ start < Len(text)
    /\ Len(chunks) < MaxIter
    /\ LET end == WindowEnd(text, start, chunk_size)
       IN  /\ chunks' = Append(chunks, ChunkOf(text, start, end))
           /\ windows' = Append(windows, <<start, end>>)
           /\ start' = NextStart(text, end, overlap)
    /\ UNCHANGED <<ct_pc, ct_raw, text, chunk_size, overlap>>
    /\ UNCHANGED <<dbVars, searchVars, uploadVars, extVars>>

\* the loop condition fails: return chunks (utils.py:101, 122; 90-91)
ChunkReturn ==
    /\ ct_pc = "loop"
    /\ ~(start < Len(text))
    /\ ct_pc' = "done"
    /\ UNCHANGED <<ct_raw, text, chunk_size, overlap, start, chunks, windows>>
    /\ UNCHANGED <<dbVars, searchVars, uploadVars, extVars>>

NextChunk == ChunkStep \/ ChunkReturn

\* --------------------------------------------------- chunk_text: properties
\* c occurs in t as a contiguous substring
IsSubstring(c, t) ==
    \E p \in 0..(Len(t) - Len(c)) : SubSeq(t, p + 1, p + Len(c)) = c

\* the text positions (0-based) of the half-open window w = <<start, end>>
Positions(w) == w[1]..(w[2] - 1)

MaxOf(S) == CHOOSE p \in S : \A q \in S : q <= p
Range(seq) == {seq[i] : i \in 1..Len(seq)}

\* C1: every chunk in the list chunk_text builds (and returns) has at most
\* chunk_size characters.
ChunksWithinChunkSize ==
    \A i \in 1..Len(chunks) : Len(chunks[i]) <= chunk_size

\* C1 witness: a returned list of several chunks, one of them of exactly
\* chunk_size characters.
ChunkOfFullSizeReturned ==
    /\ ct_pc = "done"
    /\ Len(chunks) >= 2
    /\ \E i \in 1..Len(chunks) : Len(chunks[i]) = chunk_size

\* C2 as stated: every returned chunk is a substring of the text argument
\* that was passed in.
ChunksAreSubstringsOfArgument ==
    ct_pc = "done" => \A i \in 1..Len(chunks) : IsSubstring(chunks[i], ct_raw)

\* C2 amended: every chunk is a substring of the whitespace-normalised text
\* (runs of whitespace collapsed to one space, both ends stripped).
ChunksAreSubstringsOfNormalisedText ==
    \A i \in 1..Len(chunks) : IsSubstring(chunks[i], Normalise(ct_raw))

\* C2 witness: a returned chunk that spans a place where normalisation
\* changed the argument, so that it does not occur in the argument itself.
ChunkSpansNormalisedWhitespace ==
    /\ ct_pc = "done"
    /\ Normalise(ct_raw) # ct_raw
    /\ \E i \in 1..Len(chunks) :
          /\ chunks[i] # <<>>
          /\ ~IsSubstring(chunks[i], ct_raw)

\* The window end the claim C3 describes for the window [s, s + cs): text
\* positions are those of the normalised text.
ClaimedWindowEnd(t, s, cs) ==
    LET periods == {p \in s..(s + cs - 2) :
                      p >= 0 /\ p + 2 <= Len(t) /\ t[p + 1] = "." /\ t[p + 2] = " "}
        spaces == {p \in s..(s + cs - 1) :
                      p >= 0 /\ p + 1 <= Len(t) /\ t[p + 1] = " "}
    IN  IF s + cs < Len(t)
        THEN IF periods # {} /\ MaxOf(periods) > s + (cs \div 2)
             THEN MaxOf(periods) + 1
             ELSE IF spaces # {} /\ MaxOf(spaces) > s + (cs \div 2)
                  THEN MaxOf(spaces)
                  ELSE s + cs
        ELSE Len(t)

\* C3 as stated: in a call that returns, every window ends where the
\* boundary-snapping rule puts it (after the last ". " past the middle of
\* the window, else at the last space past the middle, else at
\* start + chunk_size; at len(text) when the window reaches the end).
SnappingAsClaimed ==
    ct_pc = "done" =>
        \A i \in 1..Len(windows) :
            windows[i][2] = ClaimedWindowEnd(text, windows[i][1], chunk_size)

\* C3 where it does hold: the rule describes every window that starts at a
\* position of the text (start >= 0).
SnappingOfWindowsInsideText ==
    \A i \in 1..Len(windows) :
        windows[i][1] >= 0 =>
            windows[i][2] = ClaimedWindowEnd(text, windows[i][1], chunk_size)

\* C4 as stated: in a call that returns, the first window starts at 0, every
\* later window starts overlap characters before the end of the previous
\* one, the last window ends at the end of the text, consecutive windows
\* share overlap characters, and the windows cover every position.
WindowSequencingAsClaimed ==
    (ct_pc = "done" /\ windows # <<>>) =>
        /\ windows[1][1] = 0
        /\ \A i \in 2..Len(windows) :
              windows[i][1] = windows[i - 1][2] - overlap
        /\ windows[Len(windows)][2] = Len(text)
        /\ \A i \in 2..Len(windows) :
              Cardinality(Positions(windows[i - 1]) \cap Positions(windows[i]))
                  = overlap
        /\ \A p \in 0..(Len(text) - 1) :
              \E i \in 1..Len(windows) : p \in Positions(windows[i])

\* C4 without the shared-characters part: start of the first window, the
\* offset of every later one, the end of the last one, and coverage.
WindowOffsetsAndCoverage ==
    (ct_pc = "done" /\ windows # <<>>) =>
        /\ windows[1][1] = 0
        /\ \A i \in 2..Len(windows) :
              windows[i][1] = windows[i - 1][2] - overlap
        /\ windows[Len(windows)][2] = Len(text)
        /\ \A p \in 0..(Len(text) - 1) :
              \E i \in 1..Len(windows) : p \in Positions(windows[i])

\* ------------------------------------------------------------ the database
\* Document.Status (models.py:20-24)
Statuses == {"PENDING", "PROCESSING", "COMPLETE", "FAILED"}
\* a NULL column / Python None
NULL == "NULL"
\* values of DocumentChunk.embedding (models.py:71): the JSON text of a
\* vector (here of a one-dimensional vector), a string that is not JSON,
\* or NULL
Vectors == {"[0]", "[1]"}
EmbeddingValues == Vectors \cup {"not json", NULL}
\* json.loads of the JSON text of a vector: its coordinate
Coordinate(e) == IF e = "[0]" THEN 0 ELSE 1
\* embeddings of queries (get_embedding_model().encode([query])[0])
QueryVectors == {0, 1}

DocIds == 1..MaxDocs
ChunkIds == 1..MaxChunks
\* ids of the documents deleted so far
DeletedDocs == (1..(next_doc_id - 1)) \ DOMAIN documents

\* f without the keys in K
Without(f, K) == [x \in DOMAIN f \ K |-> f[x]]
ChunksOfDoc(rows, d) == {c \in DOMAIN rows : rows[c].document = d}

\* an empty database
EmptyDb ==
    /\ documents = <<>>
    /\ next_doc_id = 1
    /\ chunk_rows = <<>>
    /\ next_chunk_id = 1

\* a record created already in PROCESSING
NewDocumentProcessing == [status |-> "PROCESSING", openai_file_id |-> NULL]

\* Document.objects.create(..., status=PENDING) / serializer.save() with the
\* model's default status (models.py:37-42)
NewDocument == [status |-> "PENDING", openai_file_id |-> NULL]

\* models.py:68: deleting a Document deletes its chunks (on_delete=CASCADE)
RowsAfterDelete(rows, d) == Without(rows, ChunksOfDoc(rows, d))

\* ---------------------------------------------------- search_documents
\* document_filter is ignored: Document.objects.all()
MatchesFilterIgnored(doc, filter) == TRUE

\* utils.py:206-209, views.py:93: Document.objects.filter(document_filter);
\* "ALL" stands for document_filter=None
MatchesFilter(doc, filter) == filter = "ALL" \/ doc.status = filter

\* a DocumentChunk instance as fetched: its id, document_id and embedding
Instance(rows, c) ==
    [id |-> c, document |-> rows[c].document, embedding |-> rows[c].embedding]

\* utils.py:212: DocumentChunk.objects.filter(document__in=documents), as a
\* set of instances
FilteredChunks(docs, rows, filter) ==
    {Instance(rows, c) : c \in
        {x \in DOMAIN rows :
            /\ rows[x].document \in DOMAIN docs
            /\ MatchesFilter(docs[rows[x].document], filter)}}

\* Meta.ordering = ['document', 'chunk_index'] (models.py:79-80); chunk ids
\* grow with chunk_index
ChunkBefore(c, d) ==
    \/ c.document < d.document
    \/ (c.document = d.document /\ c.id < d.id)
RECURSIVE InOrder(_)
InOrder(S) ==
    IF S = {} THEN <<>>
    ELSE LET c == CHOOSE x \in S : \A y \in S \ {x} : ChunkBefore(x, y)
         IN  <<c>> \o InOrder(S \ {c})

\* json.loads(chunk.embedding) (utils.py:223-229): a vector parses; a string
\* that is not JSON raises JSONDecodeError, which is caught and the chunk
\* skipped; None raises TypeError, which is not caught
Usable(e) == e \in Vectors
RaisesTypeError(e) == e = NULL

\* utils.py:222-229: the loop over the fetched rows builds chunks_list
RECURSIVE KeepUsable(_)
KeepUsable(seq) ==
    IF seq = <<>> THEN <<>>
    ELSE IF Usable(Head(seq).embedding)
         THEN <<Head(seq)>> \o KeepUsable(Tail(seq))
         ELSE KeepUsable(Tail(seq))

\* the list the index is built from, taken when the call starts instead of
\* read from the database at the query (an index kept from earlier)
IndexedChunksStale(docs, rows, filter) == InOrder(s_begin.eligible)

\* utils.py:212-229: the rows the index of this query is built from
IndexedChunks(docs, rows, filter) ==
    KeepUsable(InOrder(FilteredChunks(docs, rows, filter)))

\* k without the clamp to the number of indexed chunks
TopKUnclamped(limit, n) == limit

\* utils.py:245: k = min(limit, len(chunks_list))
TopK(limit, n) == Min(limit, n)

\* squared L2 distance of one-dimensional vectors (IndexFlatL2)
Distance(e, q) == (Coordinate(e) - q) * (Coordinate(e) - q)

\* utils.py:238-246: index.search(query, k) on a flat L2 index over embs:
\* the 0-based indices of the k nearest vectors by ascending distance (ties
\* in any order), padded with -1 when the index holds fewer than k vectors
FaissSearch(embs, q, k) ==
    LET n == Len(embs)
        m == Min(k, n)
        d(j) == Distance(embs[j + 1], q)
    IN  {I \in [1..k -> -1..(n - 1)] :
            /\ \A a \in 1..k : (a <= m) <=> (I[a] # -1)
            /\ \A a, b \in 1..m : a < b => (I[a] # I[b] /\ d(I[a]) <= d(I[b]))
            /\ \A a \in 1..m : \A j \in 0..(n - 1) :
                  (\A b \in 1..m : I[b] # j) => d(I[a]) <= d(j)}

\* Python list indexing lst[idx] with a possibly negative index
PyIndex(lst, idx) == IF idx < 0 THEN lst[Len(lst) + idx + 1] ELSE lst[idx + 1]

\* the limit DocumentViewSet.search leaves to search_documents' default
DefaultLimit == 5

\* history: what a query could see in the database right now: the
\* documents that are COMPLETE, the chunks (as instances) of the documents
\* its filter selects, and those among them whose embedding is a vector
Visible(filter) ==
    LET sel == {c \in DOMAIN chunk_rows :
                  /\ chunk_rows[c].document \in DOMAIN documents
                  /\ (filter = "ALL"
                        \/ documents[chunk_rows[c].document].status = filter)}
    IN  [complete |-> {d \in DOMAIN documents : documents[d].status = "COMPLETE"},
         stored   |-> {Instance(chunk_rows, c) : c \in sel},
         eligible |-> {Instance(chunk_rows, c) :
                          c \in {x \in sel : chunk_rows[x].embedding \in Vectors}}]

NothingRead == [complete |-> {}, stored |-> {}, eligible |-> {}]

\* no search is modelled
IdleSearch ==
    /\ s_pc = "idle"
    /\ s_view = FALSE
    /\ s_filter = "ALL"
    /\ s_limit = 1
    /\ s_query = 0
    /\ chunks_list = <<>>
    /\ s_I = <<>>
    /\ s_i = 1
    /\ results = <<>>
    /\ s_begin = [deleted |-> {}, eligible |-> {}]
    /\ s_read = NothingRead

SearchUnchanged == UNCHANGED <<s_pc, s_view, s_filter, s_limit, s_query,
                               chunks_list, s_I, s_i, results, s_begin, s_read,
                               uploadVars, extVars>>

\* views.py:68-70: ModelViewSet create, perform_create: serializer.save()
CreateDocument ==
    /\ next_doc_id <= MaxDocs
    /\ documents' = documents @@ (next_doc_id :> NewDocument)
    /\ next_doc_id' = next_doc_id + 1
    /\ UNCHANGED <<chunk_rows, next_chunk_id>>
    /\ SearchUnchanged /\ UNCHANGED chunkVars

\* background processing of an uploaded document (extract, chunk, embed,
\* store): a PENDING document starts processing
StartProcessing(d) ==
    /\ d \in DOMAIN documents
    /\ documents[d].status = "PENDING"
    /\ documents' = [documents EXCEPT ![d].status = "PROCESSING"]
    /\ UNCHANGED <<next_doc_id, chunk_rows, next_chunk_id>>
    /\ SearchUnchanged /\ UNCHANGED chunkVars

\* background processing: the next chunk of a document is stored under a
\* fresh id (uuid4)
StoreChunk(d, e) ==
    /\ d \in DOMAIN documents
    /\ documents[d].status = "PROCESSING"
    /\ next_chunk_id <= MaxChunks
    /\ chunk_rows' = chunk_rows @@
           (next_chunk_id :> [document |-> d, embedding |-> e])
    /\ next_chunk_id' = next_chunk_id + 1
    /\ UNCHANGED <<documents, next_doc_id>>
    /\ SearchUnchanged /\ UNCHANGED chunkVars

\* background processing ends: the document is COMPLETE or FAILED
FinishProcessing(d, st) ==
    /\ d \in DOMAIN documents
    /\ documents[d].status = "PROCESSING"
    /\ documents' = [documents EXCEPT ![d].status = st]
    /\ UNCHANGED <<next_doc_id, chunk_rows, next_chunk_id>>
    /\ SearchUnchanged /\ UNCHANGED chunkVars

\* views.py:45-49: ModelViewSet destroy: instance.delete(), chunks cascade
DestroyDocument(d) ==
    /\ d \in DOMAIN documents
    /\ documents' = Without(documents, {d})
    /\ chunk_rows' = RowsAfterDelete(chunk_rows, d)
    /\ UNCHANGED <<next_doc_id, next_chunk_id>>
    /\ SearchUnchanged /\ UNCHANGED chunkVars

\* views.py:99-119: retry_processing, in one transaction
RetryProcessing(d) ==
    /\ d \in DOMAIN documents
    /\ documents[d].status = "FAILED"
    /\ chunk_rows' = Without(chunk_rows, ChunksOfDoc(chunk_rows, d))
    /\ documents' = [documents EXCEPT ![d].status = "PENDING"]
    /\ UNCHANGED <<next_doc_id, next_chunk_id>>
    /\ SearchUnchanged /\ UNCHANGED chunkVars

\* a call of search_documents starts: by DocumentViewSet.search
\* (views.py:81-94, only completed documents, default limit) or directly
\* (utils.py:193-212); the querysets are lazy, nothing is read yet. The
\* locals of the previous call are gone.
SearchBegin(view, filter, limit, q) ==
    /\ s_pc \in {"idle", "returned", "raised"}
    /\ view => (filter = "COMPLETE" /\ limit = DefaultLimit)
    /\ s_pc' = "exists"
    /\ s_view' = view
    /\ s_filter' = filter
    /\ s_limit' = limit
    /\ s_query' = q
    /\ chunks_list' = <<>>
    /\ s_I' = <<>>
    /\ s_i' = 1
    /\ results' = <<>>
    /\ s_begin' = [deleted |-> DeletedDocs, eligible |-> Visible(filter).eligible]
    /\ s_read' = NothingRead
    /\ UNCHANGED <<dbVars, chunkVars, uploadVars, extVars>>

\* utils.py:215-216: if not chunks.exists(): return []
SearchExists ==
    /\ s_pc = "exists"
    /\ s_read' = Visible(s_filter)
    /\ IF FilteredChunks(documents, chunk_rows, s_filter) = {}
       THEN s_pc' = "returned"
       ELSE s_pc' = "fetch"
    /\ UNCHANGED <<s_view, s_filter, s_limit, s_query, chunks_list, s_I, s_i,
                   results, s_begin, dbVars, chunkVars, uploadVars, extVars>>

\* utils.py:218-246: the chunk rows are fetched, the embeddings parsed, the
\* index built and searched
SearchFetch ==
    /\ s_pc = "fetch"
    /\ s_read' = Visible(s_filter)
    /\ LET fetched == FilteredChunks(documents, chunk_rows, s_filter)
           lst == IndexedChunks(documents, chunk_rows, s_filter)
           embs == [j \in 1..Len(lst) |-> lst[j].embedding]
       IN  IF \E c \in fetched : RaisesTypeError(c.embedding)
           THEN /\ s_pc' = "raised"
                /\ UNCHANGED <<chunks_list, s_I>>
           ELSE IF lst = <<>>
           THEN /\ s_pc' = "returned"
                /\ chunks_list' = lst
                /\ UNCHANGED s_I
           ELSE /\ s_pc' = "format"
                /\ chunks_list' = lst
                /\ s_I' \in FaissSearch(embs, s_query, TopK(s_limit, Len(lst)))
    /\ UNCHANGED <<s_view, s_filter, s_limit, s_query, s_i, results, s_begin,
                   dbVars, chunkVars, uploadVars, extVars>>

\* utils.py:250-264: one iteration of the result loop; chunk.document is
\* read from the database here and raises Document.DoesNotExist when the
\* document is gone
SearchFormat ==
    /\ s_pc = "format"
    /\ s_i <= Len(s_I)
    /\ IF s_I[s_i] < Len(chunks_list)
       THEN LET chunk == PyIndex(chunks_list, s_I[s_i])
            IN  IF chunk.document \in DOMAIN documents
                THEN /\ results' = Append(results,
                            [chunk_id |-> chunk.id, document_id |-> chunk.document])
                     /\ s_i' = s_i + 1
                     /\ UNCHANGED s_pc
                ELSE /\ s_pc' = "raised"
                     /\ UNCHANGED <<results, s_i>>
       ELSE /\ s_i' = s_i + 1
            /\ UNCHANGED <<s_pc, results>>
    /\ UNCHANGED <<s_view, s_filter, s_limit, s_query, chunks_list, s_I,
                   s_begin, s_read, dbVars, chunkVars, uploadVars, extVars>>

\* utils.py:266: return results
SearchReturn ==
    /\ s_pc = "format"
    /\ s_i > Len(s_I)
    /\ s_pc' = "returned"
    /\ UNCHANGED <<s_view, s_filter, s_limit, s_query, chunks_list, s_I, s_i,
                   results, s_begin, s_read, dbVars, chunkVars, uploadVars, extVars>>

Filters == {"ALL", "COMPLETE"}

NextSearch ==
    \/ CreateDocument
    \/ \E d \in DocIds : StartProcessing(d)
    \/ \E d \in DocIds, e \in EmbeddingValues : StoreChunk(d, e)
    \/ \E d \in DocIds, st \in {"COMPLETE", "FAILED"} : FinishProcessing(d, st)
    \/ \E d \in DocIds : DestroyDocument(d)
    \/ \E d \in DocIds : RetryProcessing(d)
    \/ SearchBegin(TRUE, "COMPLETE", DefaultLimit, 0)
    \/ \E f \in Filters, l \in 1..MaxLimit, q \in QueryVectors :
            SearchBegin(FALSE, f, l, q)
    \/ SearchExists
    \/ SearchFetch
    \/ SearchFormat
    \/ SearchReturn

\* ------------------------------------------------------ upload_document
Uploads == 1..MaxUploads
\* errors the OpenAI client raises in files.create / vector_stores.files.create
\* (services.py:94, 107): APIError, its subclass RateLimitError, anything else
ApiErrors == {"APIError", "RateLimitError", "Exception"}
\* vector_store_file.status as OpenAI reports it
VsStatuses == {"completed", "failed", "in_progress", "cancelled"}

\* services.py:25: document = None; Document ids start at 1
NoDocument == 0
\* the id OpenAI gives its n-th file
FileId(n) == <<"file-1", "file-2", "file-3", "file-4", "file-5">>[n]

\* a call that has not started
NotStarted ==
    [pc |-> "idle", document |-> NoDocument, openai_file_id |-> NULL,
     vs_status |-> NULL, exc |-> NULL, thrown |-> NULL, raised |-> NULL]

\* no deletion is modelled
IdleDelete ==
    /\ uploaded_by = <<>>
    /\ local_files = {}
    /\ dl = <<>>

\* no tool call is modelled
NoToolCall == [tool |-> NULL, campaign_id |-> NULL, limit |-> 1]
IdleChroma ==
    /\ collection = {}
    /\ ch_call = NoToolCall
    /\ ch_results = <<>>

\* recorder/views.py:58: SUMMARY_INTERVAL = 20
SUMMARY_INTERVAL == 20

\* no insight run is modelled
NotSummarizing ==
    [pc |-> "idle", id |-> 0, session |-> NULL, prompt |-> <<>>, ran |-> FALSE,
     result |-> NULL, missing |-> FALSE, seen |-> {}]

\* no recorder request is modelled
IdleRecorder ==
    /\ transcriptions = <<>>
    /\ next_tr_id = 1
    /\ settings_model = "elevenlabs"
    /\ clock = Epoch
    /\ last_summary_time = 0
    /\ starts = <<>>
    /\ rq = <<>>
    /\ sm = NotSummarizing

\* no upload is modelled
IdleUpload ==
    /\ env_api_key = TRUE
    /\ env_vector_store_id = NULL
    /\ remote_files = {}
    /\ next_file_id = 1
    /\ delete_attempts = <<>>
    /\ up = <<>>

\* the check of VECTOR_STORE_ID left out
BeginOutcomeUnchecked(api_key, vector_store_id) ==
    IF ~api_key THEN "OpenAIError" ELSE "ok"

\* services.py:30-35: OpenAI() raises OpenAIError when no API key is
\* configured (recorder/views.py:52-54 ends the process then); then
\* "if not vector_store_id: raise ValueError"
BeginOutcome(api_key, vector_store_id) ==
    IF ~api_key THEN "OpenAIError"
    ELSE IF vector_store_id \in {NULL, ""} THEN "ValueError"
    ELSE "ok"

\* every status but 'completed' taken as a failure
StatusForStrict(vs_status) ==
    IF vs_status = "completed" THEN "COMPLETE" ELSE "FAILED"

\* services.py:84-89: the Document status for a vector-store file status
StatusFor(vs_status) ==
    IF vs_status = "completed" THEN "COMPLETE"
    ELSE IF vs_status = "failed" THEN "FAILED"
    ELSE "PROCESSING"

\* a failed cleanup replacing the error being handled
ExcAfterFailedDeleteReplaced(exc, delete_err) == delete_err

\* services.py:102-105, 115-118: the error of a failed files.delete is
\* caught and logged; the error being handled stays
ExcAfterFailedDelete(exc, delete_err) == exc

UploadUnchanged == UNCHANGED <<chunkVars, searchVars, chunk_rows, next_chunk_id,
                               env_api_key, env_vector_store_id, extVars>>

\* services.py:30-38: the client is built and VECTOR_STORE_ID read
UploadBegin(p) ==
    /\ up[p].pc = "idle"
    /\ LET out == BeginOutcome(env_api_key, env_vector_store_id)
       IN  up' = [up EXCEPT ![p].pc = IF out = "ok" THEN "create" ELSE "raised",
                            ![p].raised = IF out = "ok" THEN NULL ELSE out]
    /\ UNCHANGED <<documents, next_doc_id, remote_files, next_file_id,
                   delete_attempts>>
    /\ UploadUnchanged

\* services.py:43-50: Document.objects.create(..., status=PENDING); an error
\* of the database leaves document = None and goes to the handler
UploadCreate(p) ==
    /\ up[p].pc = "create"
    /\ \/ /\ documents' = documents @@ (next_doc_id :> NewDocument)
          /\ next_doc_id' = next_doc_id + 1
          /\ up' = [up EXCEPT ![p].pc = "upload", ![p].document = next_doc_id]
       \/ /\ up' = [up EXCEPT ![p].pc = "handle", ![p].exc = "Exception",
                              ![p].thrown = "Exception"]
          /\ UNCHANGED <<documents, next_doc_id>>
    /\ UNCHANGED <<remote_files, next_file_id, delete_attempts>>
    /\ UploadUnchanged

\* services.py:57-61: openai_client.files.create
UploadFile(p) ==
    /\ up[p].pc = "upload"
    /\ \/ /\ remote_files' = remote_files \cup {FileId(next_file_id)}
          /\ next_file_id' = next_file_id + 1
          /\ up' = [up EXCEPT ![p].pc = "save_id",
                              ![p].openai_file_id = FileId(next_file_id)]
       \/ /\ \E e \in ApiErrors :
                up' = [up EXCEPT ![p].pc = "handle", ![p].exc = e,
                                 ![p].thrown = e]
          /\ UNCHANGED <<remote_files, next_file_id>>
    /\ UNCHANGED <<documents, next_doc_id, delete_attempts>>
    /\ UploadUnchanged

\* services.py:66-68: the file id and PROCESSING are saved
UploadSaveId(p) ==
    /\ up[p].pc = "save_id"
    /\ documents' = [documents EXCEPT
                        ![up[p].document].openai_file_id = up[p].openai_file_id,
                        ![up[p].document].status = "PROCESSING"]
    /\ up' = [up EXCEPT ![p].pc = "associate"]
    /\ UNCHANGED <<next_doc_id, remote_files, next_file_id, delete_attempts>>
    /\ UploadUnchanged

\* services.py:73-76: openai_client.beta.vector_stores.files.create
UploadAssociate(p) ==
    /\ up[p].pc = "associate"
    /\ \/ \E st \in VsStatuses :
            up' = [up EXCEPT ![p].pc = "final", ![p].vs_status = st]
       \/ \E e \in ApiErrors :
            up' = [up EXCEPT ![p].pc = "handle", ![p].exc = e, ![p].thrown = e]
    /\ UNCHANGED <<documents, next_doc_id, remote_files, next_file_id,
                   delete_attempts>>
    /\ UploadUnchanged

\* services.py:84-92: the status is set from the vector-store file status
\* and saved; the document is returned
UploadFinal(p) ==
    /\ up[p].pc = "final"
    /\ documents' = [documents EXCEPT
                        ![up[p].document].status = StatusFor(up[p].vs_status)]
    /\ up' = [up EXCEPT ![p].pc = "returned"]
    /\ UNCHANGED <<next_doc_id, remote_files, next_file_id, delete_attempts>>
    /\ UploadUnchanged

\* services.py:94-98, 107-111: except ...: if document: status = FAILED, save
UploadHandle(p) ==
    /\ up[p].pc = "handle"
    /\ IF up[p].document # NoDocument
       THEN documents' = [documents EXCEPT ![up[p].document].status = "FAILED"]
       ELSE UNCHANGED documents
    /\ up' = [up EXCEPT ![p].pc = "cleanup"]
    /\ UNCHANGED <<next_doc_id, remote_files, next_file_id, delete_attempts>>
    /\ UploadUnchanged

\* services.py:100-105, 113-118: if openai_file_id: try files.delete, which
\* deletes the file or fails
UploadCleanup(p) ==
    /\ up[p].pc = "cleanup"
    /\ IF up[p].openai_file_id # NULL
       THEN LET f == up[p].openai_file_id
                n == IF f \in DOMAIN delete_attempts THEN delete_attempts[f] ELSE 0
            IN  /\ delete_attempts' =
                      [x \in DOMAIN delete_attempts \cup {f} |->
                          IF x = f THEN n + 1 ELSE delete_attempts[x]]
                /\ \/ /\ remote_files' = remote_files \ {f}
                      /\ up' = [up EXCEPT ![p].pc = "reraise"]
                   \/ /\ UNCHANGED remote_files
                      /\ up' = [up EXCEPT
                                  ![p].pc = "reraise",
                                  ![p].exc = ExcAfterFailedDelete(up[p].exc, "DeleteError")]
       ELSE /\ up' = [up EXCEPT ![p].pc = "reraise"]
            /\ UNCHANGED <<remote_files, delete_attempts>>
    /\ UNCHANGED <<documents, next_doc_id, next_file_id>>
    /\ UploadUnchanged

\* services.py:106, 119: raise
UploadReraise(p) ==
    /\ up[p].pc = "reraise"
    /\ up' = [up EXCEPT ![p].pc = "raised", ![p].raised = up[p].exc]
    /\ UNCHANGED <<documents, next_doc_id, remote_files, next_file_id,
                   delete_attempts>>
    /\ UploadUnchanged

NextUpload ==
    \E p \in Uploads :
        \/ UploadBegin(p)
        \/ UploadCreate(p)
        \/ UploadFile(p)
        \/ UploadSaveId(p)
        \/ UploadAssociate(p)
        \/ UploadFinal(p)
        \/ UploadHandle(p)
        \/ UploadCleanup(p)
        \/ UploadReraise(p)

\* the environment of the process (recorder/views.py:52-54: the process
\* exits at start-up when OPENAI_API_KEY is not set), and a database that is
\* empty or holds a document uploaded earlier
InitUploadState ==
    /\ env_api_key = TRUE
    /\ env_vector_store_id \in {NULL, "", "vs_1"}
    /\ delete_attempts = <<>>
    /\ up = [p \in Uploads |-> NotStarted]
    /\ chunk_rows = <<>>
    /\ next_chunk_id = 1
    /\ \/ /\ documents = <<>>
          /\ next_doc_id = 1
          /\ remote_files = {}
          /\ next_file_id = 1
       \/ /\ documents = (1 :> [status |-> "COMPLETE", openai_file_id |-> FileId(1)])
          /\ next_doc_id = 2
          /\ remote_files = {FileId(1)}
          /\ next_file_id = 2

\* ------------------------------------------------------ delete_document
Deletes == 1..MaxDeletes
Users == {"alice", "bob"}
\* the user who uploaded document d
Uploader(d) == IF d = 1 THEN "alice" ELSE "bob"

\* a call that has not started
NotDeleting ==
    [pc |-> "idle", via |-> NULL, user |-> NULL, id |-> NoDocument,
     file_id |-> NULL, deleted |-> FALSE, result |-> NULL, response |-> NULL]

\* the ownership of the document not looked at
OwnedByAnyone(docs, owners, id, user) == id \in DOMAIN docs

\* api.py:285: Document.objects.get(id=document_id, uploaded_by=request.user)
OwnedBy(docs, owners, id, user) == id \in DOMAIN docs /\ owners[id] = user

\* api.py:288-303: the response for what DocumentService.delete_document did
ResponseFor(result) == IF result = "True" THEN "200" ELSE "500"

\* the outcome of the service call c, with the response when the API made it
Finished(c, result) ==
    [dl EXCEPT ![c].pc = "done", ![c].result = result,
               ![c].response = IF dl[c].via = "api" THEN ResponseFor(result)
                               ELSE NULL]

\* the result depending on the OpenAI deletion
ResultRequiresRemoteDelete(remote_deleted) ==
    IF remote_deleted THEN "True" ELSE "False"

\* services.py:227-239: return True whatever files.delete did
ResultAfterRemoteDelete(remote_deleted) == "True"

DeleteUnchanged == UNCHANGED <<chunkVars, searchVars, next_doc_id, next_chunk_id,
                               env_api_key, env_vector_store_id, next_file_id, up,
                               chromaVars, recorderVars>>

\* api.py:280-285: DELETE by an authenticated user; 404 unless the document
\* exists and was uploaded by that user
ApiDeleteDocument(c, user, id) ==
    /\ dl[c].pc = "idle"
    /\ dl' = [dl EXCEPT ![c].via = "api", ![c].user = user, ![c].id = id,
                        ![c].pc = IF OwnedBy(documents, uploaded_by, id, user)
                                  THEN "service" ELSE "done",
                        ![c].response = IF OwnedBy(documents, uploaded_by, id, user)
                                        THEN NULL ELSE "404"]
    /\ UNCHANGED <<documents, chunk_rows, uploaded_by, local_files, remote_files,
                   delete_attempts>>
    /\ DeleteUnchanged

\* services.py:202: DocumentService.delete_document(document_id) called
\* directly
ServiceDeleteDocument(c, id) ==
    /\ dl[c].pc = "idle"
    /\ dl' = [dl EXCEPT ![c].via = "service", ![c].id = id, ![c].pc = "service"]
    /\ UNCHANGED <<documents, chunk_rows, uploaded_by, local_files, remote_files,
                   delete_attempts>>
    /\ DeleteUnchanged

\* services.py:206-210, 240-242: OpenAI() outside the try raises OpenAIError
\* without an API key; Document.objects.get; DoesNotExist returns False
DeleteGet(c) ==
    /\ dl[c].pc = "service"
    /\ IF ~env_api_key
       THEN dl' = Finished(c, "raised")
       ELSE IF dl[c].id \notin DOMAIN documents
       THEN dl' = Finished(c, "False")
       ELSE dl' = [dl EXCEPT ![c].pc = "delete",
                             ![c].file_id = documents[dl[c].id].openai_file_id]
    /\ UNCHANGED <<documents, chunk_rows, uploaded_by, local_files, remote_files,
                   delete_attempts>>
    /\ DeleteUnchanged

\* services.py:213, 243-245: document.delete() with its cascade; an error of
\* the database returns False
DeleteRecord(c) ==
    /\ dl[c].pc = "delete"
    /\ \/ /\ documents' = Without(documents, {dl[c].id})
          /\ uploaded_by' = Without(uploaded_by, {dl[c].id})
          /\ chunk_rows' = RowsAfterDelete(chunk_rows, dl[c].id)
          /\ dl' = [dl EXCEPT ![c].pc = "unlink", ![c].deleted = TRUE]
       \/ /\ dl[c].id \in DOMAIN documents
          /\ dl' = Finished(c, "False")
          /\ UNCHANGED <<documents, uploaded_by, chunk_rows>>
    /\ UNCHANGED <<local_files, remote_files, delete_attempts>>
    /\ DeleteUnchanged

\* services.py:217-222: os.remove of the local file when it is there; an
\* OSError is logged
DeleteLocalFile(c) ==
    /\ dl[c].pc = "unlink"
    /\ \/ local_files' = local_files \ {dl[c].id}
       \/ /\ dl[c].id \in local_files
          /\ UNCHANGED local_files
    /\ dl' = [dl EXCEPT ![c].pc = "remote"]
    /\ UNCHANGED <<documents, chunk_rows, uploaded_by, remote_files,
                   delete_attempts>>
    /\ DeleteUnchanged

\* services.py:225-239: files.delete when the document had an
\* openai_file_id, its errors logged; return True
DeleteRemoteFile(c) ==
    /\ dl[c].pc = "remote"
    /\ IF dl[c].file_id # NULL
       THEN LET f == dl[c].file_id
                n == IF f \in DOMAIN delete_attempts THEN delete_attempts[f] ELSE 0
            IN  /\ delete_attempts' =
                      [x \in DOMAIN delete_attempts \cup {f} |->
                          IF x = f THEN n + 1 ELSE delete_attempts[x]]
                /\ \/ /\ remote_files' = remote_files \ {f}
                      /\ dl' = Finished(c, ResultAfterRemoteDelete(TRUE))
                   \/ /\ UNCHANGED remote_files
                      /\ dl' = Finished(c, ResultAfterRemoteDelete(FALSE))
       ELSE /\ UNCHANGED <<remote_files, delete_attempts>>
            /\ dl' = Finished(c, "True")
    /\ UNCHANGED <<documents, chunk_rows, uploaded_by, local_files>>
    /\ DeleteUnchanged

NextDelete ==
    \E c \in Deletes :
        \/ \E u \in Users, id \in 1..(MaxDocs + 1) : ApiDeleteDocument(c, u, id)
        \/ \E id \in 1..(MaxDocs + 1) : ServiceDeleteDocument(c, id)
        \/ DeleteGet(c)
        \/ DeleteRecord(c)
        \/ DeleteLocalFile(c)
        \/ DeleteRemoteFile(c)

\* the environment, and a database of documents uploaded earlier, each with
\* or without an OpenAI file and a file on disk
InitDeleteState ==
    /\ env_api_key = TRUE
    /\ env_vector_store_id = "vs_1"
    /\ \E withFile \in SUBSET DocIds :
          /\ documents = [d \in DocIds |->
                            [status |-> "COMPLETE",
                             openai_file_id |-> IF d \in withFile THEN FileId(d)
                                                ELSE NULL]]
          /\ remote_files = {FileId(d) : d \in withFile}
    /\ uploaded_by = [d \in DocIds |-> Uploader(d)]
    /\ local_files \in SUBSET DocIds
    /\ next_doc_id = MaxDocs + 1
    /\ next_file_id = MaxDocs + 1
    /\ chunk_rows = <<>>
    /\ next_chunk_id = 1
    /\ delete_attempts = <<>>
    /\ up = <<>>
    /\ dl = [c \in Deletes |-> NotDeleting]

\* ---------------------------------------------- properties of delete
\* the service call c has returned or raised
ServiceFinished(c) == dl[c].pc = "done" /\ dl[c].result # NULL
StoresUnchanged ==
    /\ documents' = documents
    /\ local_files' = local_files
    /\ remote_files' = remote_files
    /\ delete_attempts' = delete_attempts

\* what C11 says of one step of the service
DeleteContractStep(c) ==
    /\ (dl'[c].pc = "done" /\ dl'[c].result # NULL) =>
          (dl'[c].result = "True" <=>
              (dl'[c].deleted /\ dl'[c].id \notin DOMAIN documents'))
    /\ (dl[c].pc = "service" /\ dl'[c].pc # "service"
            /\ dl[c].id \notin DOMAIN documents) =>
          (dl'[c].result = "False" /\ StoresUnchanged)
    /\ (dl[c].pc = "remote" /\ dl'[c].pc # "remote"
            /\ delete_attempts' # delete_attempts) =>
          /\ dl[c].id \notin DOMAIN documents
          /\ dl[c].file_id # NULL

\* C11: delete_document returns True exactly when the Document
\* existed and its record was deleted, returns False with nothing changed
\* when no such Document exists, and attempts the OpenAI deletion only after
\* the record is gone and only for a document that had an openai_file_id
DeleteDocumentContract ==
    [][\A c \in DOMAIN dl : DeleteContractStep(c)]_vars

\* C11 case: one call returned True although the OpenAI deletion of the
\* document's file failed, another returned False for an id without Document
DeletedLocallyDespiteRemoteFailure ==
    \E c, o \in DOMAIN dl :
        /\ dl[c].result = "True"
        /\ dl[c].file_id # NULL
        /\ dl[c].file_id \in remote_files
        /\ dl[c].id \notin DOMAIN documents
        /\ dl[o].result = "False"
        /\ ~dl[o].deleted
        /\ dl[o].id = MaxDocs + 1

\* C12: a DELETE through the API for a document that does not exist or was
\* uploaded by another user answers 404 and changes no record and no file,
\* and the API deletes a record only for the user who uploaded it
ApiDeletesOnlyForUploader ==
    [][\A c \in DOMAIN dl :
          /\ (dl[c].pc = "idle" /\ dl'[c].via = "api"
                  /\ ~(dl'[c].id \in DOMAIN documents
                          /\ Uploader(dl'[c].id) = dl'[c].user)) =>
                (dl'[c].pc = "done" /\ dl'[c].response = "404" /\ StoresUnchanged)
          /\ (dl'[c].via = "api" /\ dl'[c].deleted) =>
                Uploader(dl'[c].id) = dl'[c].user]_vars

\* C12 case: another user's DELETE was answered 404 and the document, its
\* local file and its OpenAI file are still there, while the uploader's
\* DELETE of the other document went through
ApiRefusedOtherUser ==
    \E c, o \in DOMAIN dl :
        /\ dl[c].via = "api"
        /\ dl[c].response = "404"
        /\ dl[c].id \in DOMAIN documents
        /\ uploaded_by[dl[c].id] # dl[c].user
        /\ dl[c].id \in local_files
        /\ documents[dl[c].id].openai_file_id \in remote_files
        /\ dl[o].via = "api"
        /\ dl[o].response = "200"

\* ------------------------------------------- ChromaVectorStore, tools
ChromaDocs == 1..MaxChromaDocs
Campaigns == {"c1", "c2"}
\* campaign_id as a caller can pass it: a campaign id, '' or None
CampaignArgs == Campaigns \cup {"", NULL}

\* vector_store.py:102-116: the metadata of a chunk; campaign_id is stored
\* only when the document has a campaign (NULL: document.campaign is None)
Metadata(document_id, idx, campaign) ==
    IF campaign # NULL
    THEN [document_id |-> document_id, chunk_index |-> idx, campaign_id |-> campaign]
    ELSE [document_id |-> document_id, chunk_index |-> idx]

\* vector_store.py:96-118: ids and metadatas of the n chunks of a document
Entries(document_id, n, campaign) ==
    {[id |-> <<document_id, idx>>, metadata |-> Metadata(document_id, idx, campaign)] :
        idx \in 0..(n - 1)}

\* no where clause
NoWhere == <<>>
\* filter_dict=None (search_rules_tool)
NoFilterDict == <<>>

\* vector_store.py:152-161: filter_dict to where_filter; None values are
\* dropped and an empty where_filter becomes None
WhereFilter(filter_dict) ==
    LET kept == {k \in DOMAIN filter_dict : filter_dict[k] # NULL}
    IN  IF filter_dict = NoFilterDict \/ kept = {}
        THEN NoWhere
        ELSE [k \in kept |-> filter_dict[k]]

\* collection.query(where=...): the entries whose metadata has every key of
\* the where clause with an equal value
Matching(coll, where) ==
    {e \in coll : \A k \in DOMAIN where :
                     k \in DOMAIN e.metadata /\ e.metadata[k] = where[k]}

\* collection.query(n_results=limit): some ranking of the matching entries,
\* cut at limit
QueryResults(coll, where, limit) ==
    LET M == Matching(coll, where)
        n == Min(limit, Cardinality(M))
    IN  {r \in [1..n -> M] : \A i, j \in 1..n : r[i] = r[j] => i = j}

ChromaUnchanged == UNCHANGED <<chunkVars, dbVars, searchVars, uploadVars,
                               deleteVars, recorderVars>>

\* vector_store.py:73-128: add_document for a document not yet in the
\* collection, with n chunks and the document's campaign
AddDocument(d, n, campaign) ==
    /\ \A e \in collection : e.metadata.document_id # d
    /\ collection' = collection \cup Entries(d, n, campaign)
    /\ UNCHANGED <<ch_call, ch_results>>
    /\ ChromaUnchanged

\* tools.py:65-98 with vector_store.py:135-194: a failing query returns []
SearchCampaignDocumentsTool(campaign_id, limit) ==
    /\ ch_call' = [tool |-> "campaign", campaign_id |-> campaign_id, limit |-> limit]
    /\ \/ ch_results' \in QueryResults(collection,
                                       WhereFilter([campaign_id |-> campaign_id]),
                                       limit)
       \/ ch_results' = <<>>
    /\ UNCHANGED collection
    /\ ChromaUnchanged

\* tools.py:30-63: search_rules_tool, filter_dict=None
SearchRulesTool(limit) ==
    /\ ch_call' = [tool |-> "rules", campaign_id |-> NULL, limit |-> limit]
    /\ \/ ch_results' \in QueryResults(collection, WhereFilter(NoFilterDict), limit)
       \/ ch_results' = <<>>
    /\ UNCHANGED collection
    /\ ChromaUnchanged

NextChroma ==
    \/ \E d \in ChromaDocs, n \in 1..MaxChunks, c \in Campaigns \cup {NULL} :
          AddDocument(d, n, c)
    \/ \E c \in CampaignArgs, l \in 1..MaxLimit : SearchCampaignDocumentsTool(c, l)
    \/ \E l \in 1..MaxLimit : SearchRulesTool(l)

\* ---------------------------------------------- properties of the tools
\* every result of the latest campaign search is of the campaign asked for
ResultsOfCampaignAsked ==
    \A i \in 1..Len(ch_results) :
        /\ "campaign_id" \in DOMAIN ch_results[i].metadata
        /\ ch_results[i].metadata.campaign_id = ch_call.campaign_id

\* C13 as stated: every result of search_campaign_documents_tool comes from
\* a chunk whose stored campaign_id equals the campaign_id argument; chunks
\* of documents without a campaign are never returned
CampaignSearchStaysInCampaign ==
    ch_call.tool = "campaign" => ResultsOfCampaignAsked

\* the same for the calls whose campaign_id is not None
CampaignSearchWithIdStaysInCampaign ==
    (ch_call.tool = "campaign" /\ ch_call.campaign_id # NULL) =>
        ResultsOfCampaignAsked

\* ------------------------------------------------------- upload_chunk
Requests == 1..MaxRequests
Sessions == {"s1", "s2"}
\* what a backend transcribes: whitespace (silence) or words
TranscriptionTexts == {<<" ">>, <<"a", " ", "a">>}
\* a local variable that was never assigned
UNBOUND == "UNBOUND"

\* a request that has not started
NoRequest ==
    [pc |-> "idle", session |-> NULL, current_chunk_number |-> 0,
     transcription_text |-> <<>>, language_probability |-> UNBOUND,
     transcribed |-> FALSE, current_time |-> 0, response |-> NULL]

\* Transcription.objects.filter(session=session)
OfSession(trs, session) == {t \in DOMAIN trs : trs[t].session = session}

\* views.py:400-401: last_chunk = ....order_by('-chunk_number').first();
\* (last_chunk.chunk_number + 1) if last_chunk else 0
NextChunkNumber(trs, session) ==
    IF OfSession(trs, session) = {} THEN 0
    ELSE MaxOf({trs[t].chunk_number : t \in OfSession(trs, session)}) + 1

\* views.py:441-480: what the branch of the configured backend assigns to
\* language_probability; the 'openai' branch assigns nothing
LanguageProbabilityAfter(model) ==
    IF model = "elevenlabs" THEN "probability" ELSE UNBOUND

\* views.py:496: transcription_text.strip() and
\* (current_time - last_summary_time >= SUMMARY_INTERVAL)
SummaryDue(transcription_text, current_time, last) ==
    Strip(transcription_text) # <<>> /\ current_time - last >= SUMMARY_INTERVAL

RecorderUnchanged == UNCHANGED <<chunkVars, dbVars, searchVars, uploadVars,
                                 deleteVars, chromaVars, settings_model, sm>>

\* time passes
Tick ==
    /\ clock < Epoch + MaxTicks * TickSeconds
    /\ clock' = clock + TickSeconds
    /\ UNCHANGED <<transcriptions, next_tr_id, last_summary_time, starts, rq>>
    /\ RecorderUnchanged

\* views.py:391-401: the request for a session of the user; 400 without the
\* 'audio_chunk' file; the next chunk number is read
UploadChunkBegin(r, session, has_file) ==
    /\ rq[r].pc = "idle"
    /\ rq' = [rq EXCEPT ![r] =
                IF has_file
                THEN [NoRequest EXCEPT
                        !.pc = "transcribe", !.session = session,
                        !.current_chunk_number = NextChunkNumber(transcriptions, session)]
                ELSE [NoRequest EXCEPT
                        !.pc = "done", !.session = session, !.response = "400"]]
    /\ UNCHANGED <<transcriptions, next_tr_id, clock, last_summary_time, starts>>
    /\ RecorderUnchanged

\* views.py:412-480, 511-514: the configured backend returns a transcription
\* or raises; 500 when it raises
UploadChunkTranscribe(r) ==
    /\ rq[r].pc = "transcribe"
    /\ \/ \E t \in TranscriptionTexts :
            rq' = [rq EXCEPT ![r].pc = "create",
                             ![r].transcription_text = t,
                             ![r].transcribed = TRUE,
                             ![r].language_probability =
                                 LanguageProbabilityAfter(settings_model)]
       \/ rq' = [rq EXCEPT ![r].pc = "done", ![r].response = "500"]
    /\ UNCHANGED <<transcriptions, next_tr_id, clock, last_summary_time, starts>>
    /\ RecorderUnchanged

\* views.py:483-490, 511-514: Transcription.objects.create(...); reading the
\* unassigned language_probability raises UnboundLocalError: 500
UploadChunkCreate(r) ==
    /\ rq[r].pc = "create"
    /\ IF rq[r].language_probability = UNBOUND
       THEN /\ rq' = [rq EXCEPT ![r].pc = "done", ![r].response = "500"]
            /\ UNCHANGED <<transcriptions, next_tr_id>>
       ELSE /\ transcriptions' = transcriptions @@
                  (next_tr_id :> [session |-> rq[r].session,
                                  chunk_number |-> rq[r].current_chunk_number,
                                  text |-> rq[r].transcription_text,
                                  by |-> r])
            /\ next_tr_id' = next_tr_id + 1
            /\ rq' = [rq EXCEPT ![r].pc = "check"]
    /\ UNCHANGED <<clock, last_summary_time, starts>>
    /\ RecorderUnchanged

\* views.py:494-496: current_time = time.time() and the test of the interval
UploadChunkCheck(r) ==
    /\ rq[r].pc = "check"
    /\ rq' = [rq EXCEPT
                ![r].current_time = clock,
                ![r].pc = IF SummaryDue(rq[r].transcription_text, clock,
                                        last_summary_time)
                          THEN "start" ELSE "respond"]
    /\ UNCHANGED <<transcriptions, next_tr_id, clock, last_summary_time, starts>>
    /\ RecorderUnchanged

\* views.py:497-503: last_summary_time = current_time; the thread is started
UploadChunkStart(r) ==
    /\ rq[r].pc = "start"
    /\ last_summary_time' = rq[r].current_time
    /\ starts' = Append(starts, [time |-> rq[r].current_time,
                                 session |-> rq[r].session,
                                 text |-> rq[r].transcription_text,
                                 previous |-> last_summary_time])
    /\ rq' = [rq EXCEPT ![r].pc = "respond"]
    /\ UNCHANGED <<transcriptions, next_tr_id, clock>>
    /\ RecorderUnchanged

\* views.py:508-509: 201 with the new transcription
UploadChunkRespond(r) ==
    /\ rq[r].pc = "respond"
    /\ rq' = [rq EXCEPT ![r].pc = "done", ![r].response = "201"]
    /\ UNCHANGED <<transcriptions, next_tr_id, clock, last_summary_time, starts>>
    /\ RecorderUnchanged

NextRecorder ==
    \/ Tick
    \/ \E r \in Requests :
          \/ \E session \in Sessions, has_file \in BOOLEAN :
                UploadChunkBegin(r, session, has_file)
          \/ UploadChunkTranscribe(r)
          \/ UploadChunkCreate(r)
          \/ UploadChunkCheck(r)
          \/ UploadChunkStart(r)
          \/ UploadChunkRespond(r)

InitRecorderState ==
    /\ transcriptions = <<>>
    /\ next_tr_id = 1
    /\ settings_model \in {"openai", "elevenlabs"}
    /\ clock = Epoch
    /\ last_summary_time = 0
    /\ starts = <<>>
    /\ rq = [r \in Requests |-> NoRequest]
    /\ sm = NotSummarizing

\* ------------------------------------------ properties of upload_chunk
\* C14 as stated: a request with an audio file whose backend returned a
\* transcription has, once answered, stored exactly one Transcription with
\* the returned text for its session and answered 201
TranscribedChunkIsStored ==
    \A r \in DOMAIN rq :
        (rq[r].pc = "done" /\ rq[r].transcribed) =>
            /\ rq[r].response = "201"
            /\ Cardinality({t \in DOMAIN transcriptions :
                               transcriptions[t].by = r}) = 1
            /\ \A t \in DOMAIN transcriptions :
                  transcriptions[t].by = r =>
                      /\ transcriptions[t].session = rq[r].session
                      /\ transcriptions[t].text = rq[r].transcription_text

\* the same for the 'elevenlabs' backend alone
TranscribedChunkIsStoredByElevenLabs ==
    settings_model = "elevenlabs" => TranscribedChunkIsStored

\* the chunk numbers of a session, in creation order
ChunkNumbers(session) ==
    LET ids == OfSession(transcriptions, session)
        RECURSIVE Ordered(_)
        Ordered(S) ==
            IF S = {} THEN <<>>
            ELSE LET m == MaxOf(S)
                 IN  Append(Ordered(S \ {m}), transcriptions[m].chunk_number)
    IN  Ordered(ids)

\* C17 as stated: in every session the chunk numbers of the stored
\* Transcriptions are 0, 1, ..., n-1 in creation order
ChunkNumbersSequential ==
    \A session \in Sessions :
        \A i \in 1..Len(ChunkNumbers(session)) : ChunkNumbers(session)[i] = i - 1

\* C18 as stated: an automatic insight run starts only for a non-blank text
\* and SUMMARY_INTERVAL seconds or more after the start recorded in
\* last_summary_time, and any two automatic starts are at least
\* SUMMARY_INTERVAL seconds apart
AutomaticStartsThrottled ==
    /\ \A i \in 1..Len(starts) :
          /\ Strip(starts[i].text) # <<>>
          /\ starts[i].time - starts[i].previous >= SUMMARY_INTERVAL
    /\ \A i, j \in 1..Len(starts) :
          i < j => starts[j].time - starts[i].time >= SUMMARY_INTERVAL

\* ------------------------------------- summarize_latest_transcriptions
\* views.py:125: [:6]
LatestCount == 6

\* the newest n of the Transcription ids in S, newest first
\* (order_by('-created_at')[:n]; ids grow with creation)
RECURSIVE Newest(_, _)
Newest(S, n) ==
    IF S = {} \/ n = 0 THEN <<>>
    ELSE LET m == MaxOf(S) IN <<m>> \o Newest(S \ {m}, n - 1)

\* the latest transcriptions whatever their session
LatestOfAnySession(trs, session) == Newest(DOMAIN trs, LatestCount)

\* views.py:125: Transcription.objects.filter(session=session_for_summary)
\* .order_by('-created_at')[:6]
LatestOf(trs, session) == Newest(OfSession(trs, session), LatestCount)

InsightUnchanged == UNCHANGED <<chunkVars, dbVars, searchVars, uploadVars,
                                deleteVars, chromaVars, settings_model, clock,
                                last_summary_time, starts, rq>>

\* views.py:483-490 seen from the table: a Transcription is stored for a
\* session, or without one (models.py:65: null=True)
StoreTranscription(session) ==
    /\ next_tr_id <= MaxTranscriptions
    /\ transcriptions' = transcriptions @@
          (next_tr_id :> [session |-> session,
                          chunk_number |-> NextChunkNumber(transcriptions, session),
                          text |-> <<"a">>,
                          by |-> 0])
    /\ next_tr_id' = next_tr_id + 1
    /\ UNCHANGED sm
    /\ InsightUnchanged

\* views.py:362 (ModelViewSet.destroy) with models.py:65: deleting a session
\* deletes its transcriptions
DestroySession(session) ==
    /\ OfSession(transcriptions, session) # {}
    /\ transcriptions' = Without(transcriptions, OfSession(transcriptions, session))
    /\ UNCHANGED <<next_tr_id, sm>>
    /\ InsightUnchanged

\* views.py:113-123: the triggering transcription and its session; None when
\* the transcription does not exist or has no session
SummarizeBegin(id) ==
    /\ sm.pc \in {"idle", "done"}
    /\ sm' = IF id \notin DOMAIN transcriptions
             THEN [NotSummarizing EXCEPT !.pc = "done", !.id = id, !.missing = TRUE]
             ELSE IF transcriptions[id].session = NULL
             THEN [NotSummarizing EXCEPT !.pc = "done", !.id = id]
             ELSE [NotSummarizing EXCEPT !.pc = "query", !.id = id,
                                         !.session = transcriptions[id].session]
    /\ UNCHANGED <<transcriptions, next_tr_id>>
    /\ InsightUnchanged

\* views.py:125-152: the latest transcriptions are read and combined into
\* the prompt; None when there is none
SummarizeQuery ==
    /\ sm.pc = "query"
    /\ LET latest == LatestOf(transcriptions, sm.session)
       IN  sm' = [sm EXCEPT !.pc = IF latest = <<>> THEN "done" ELSE "run",
                            !.prompt = latest,
                            !.seen = OfSession(transcriptions, sm.session)]
    /\ UNCHANGED <<transcriptions, next_tr_id>>
    /\ InsightUnchanged

\* views.py:155-196: the agent runs on the prompt; its output, or None when
\* it fails
SummarizeRun ==
    /\ sm.pc = "run"
    /\ \E out \in {"insight", NULL} :
          sm' = [sm EXCEPT !.pc = "done", !.ran = TRUE, !.result = out]
    /\ UNCHANGED <<transcriptions, next_tr_id>>
    /\ InsightUnchanged

\* a session with the transcriptions of InitialStored chunks uploaded one
\* after the other (views.py:400-401, 483-490), no insight run yet
InitInsightState ==
    /\ transcriptions = [t \in 1..InitialStored |->
                            [session |-> "s1", chunk_number |-> t - 1,
                             text |-> <<"a">>, by |-> 0]]
    /\ next_tr_id = InitialStored + 1
    /\ settings_model = "elevenlabs"
    /\ clock = Epoch
    /\ last_summary_time = 0
    /\ starts = <<>>
    /\ rq = <<>>
    /\ sm = NotSummarizing

NextInsight ==
    \/ \E session \in Sessions \cup {NULL} : StoreTranscription(session)
    \/ \E session \in Sessions : DestroySession(session)
    \/ \E id \in 1..MaxTranscriptions : SummarizeBegin(id)
    \/ SummarizeQuery
    \/ SummarizeRun

ViewSearchReturnsOnlyCompleteDocuments ==
    (s_pc = "returned" /\ s_view) =>
        \A i \in 1..Len(results) : results[i].document_id \in s_read.complete

\* C5 case: the view returned the later chunk while the earlier chunk, with a
\* usable embedding, belongs to a FAILED document
ViewSearchSkippedFailedDocument ==
    /\ s_pc = "returned"
    /\ s_view
    /\ results # <<>>
    /\ results[1].chunk_id = 2
    /\ 1 \in DOMAIN chunk_rows
    /\ Usable(chunk_rows[1].embedding)
    /\ chunk_rows[1].document \in DOMAIN documents
    /\ documents[chunk_rows[1].document].status = "FAILED"

\* C6: search_documents with limit >= 1 that returns, returns at most limit
\* results, at most as many as there are chunks with a usable embedding among
\* the filtered documents, no chunk twice, and [] when the filtered documents
\* have no chunks
SearchResultsBounded ==
    s_pc = "returned" =>
        /\ Len(results) <= s_limit
        /\ Len(results) <= Cardinality(s_read.eligible)
        /\ \A i, j \in 1..Len(results) :
               results[i].chunk_id = results[j].chunk_id => i = j
        /\ s_read.stored = {} => results = <<>>

\* C6 case: a direct call returned with fewer usable chunks than its limit,
\* one result for each
SearchReturnedFewerThanLimit ==
    /\ s_pc = "returned"
    /\ ~s_view
    /\ results # <<>>
    /\ Cardinality(s_read.eligible) < s_limit
    /\ Len(results) = Cardinality(s_read.eligible)

\* C7 as stated: no result of a query belongs to a document deleted before
\* the query started, and every usable chunk of a selected document stored
\* when the query starts is in the set the query searches
EveryChunkStoredAtStartIsSearched ==
    /\ s_pc = "returned" =>
          \A i \in 1..Len(results) : results[i].document_id \notin s_begin.deleted
    /\ s_pc \in {"format", "returned"} => s_begin.eligible \subseteq Range(chunks_list)

\* C7: no result of a query belongs to a document deleted before the query
\* started, and the set the query searches is exactly the usable chunks of
\* the selected documents stored when the query reads the chunk rows: a chunk
\* stored before the query starts is searched unless it was removed, or its
\* document stopped matching the filter, before that read
SearchesExactlyTheChunksStoredAtRead ==
    /\ s_pc = "returned" =>
          \A i \in 1..Len(results) : results[i].document_id \notin s_begin.deleted
    /\ s_pc \in {"format", "returned"} => Range(chunks_list) = s_read.eligible

\* C7 case: a document was deleted before the query started, and the query
\* returned a chunk that was stored after it started
SearchAfterDeleteReturnedNewChunk ==
    /\ s_pc = "returned"
    /\ s_begin.deleted # {}
    /\ results # <<>>
    /\ \E c \in Range(chunks_list) : c \notin s_begin.eligible

\* ------------------------------------------------- properties of upload
\* C8: when upload_document returns, the stored Document has a non-null
\* openai_file_id and status COMPLETE for vector-store status 'completed',
\* FAILED for 'failed', PROCESSING for any other
UploadReturnSetsStatus ==
    \A p \in DOMAIN up :
        up[p].pc = "returned" =>
            /\ up[p].document \in DOMAIN documents
            /\ documents[up[p].document].openai_file_id # NULL
            /\ up[p].vs_status = "completed" =>
                   documents[up[p].document].status = "COMPLETE"
            /\ up[p].vs_status = "failed" =>
                   documents[up[p].document].status = "FAILED"
            /\ up[p].vs_status \notin {"completed", "failed"} =>
                   documents[up[p].document].status = "PROCESSING"

\* C8 case: a call returned after the vector store reported 'cancelled'
UploadReturnedWithOtherStatus ==
    \E p \in DOMAIN up :
        /\ up[p].pc = "returned"
        /\ up[p].vs_status = "cancelled"
        /\ documents[up[p].document].status = "PROCESSING"

\* C9: when the file upload or the vector-store association raised after the
\* Document was created, the call raises that same error, the Document is
\* stored with status FAILED, and the OpenAI file, if it was uploaded, has
\* had exactly one deletion attempt, whose failure is swallowed
UploadFailureMarksFailedAndCleansUp ==
    \A p \in DOMAIN up :
        (up[p].pc = "raised" /\ up[p].document # NoDocument) =>
            /\ up[p].raised = up[p].thrown
            /\ up[p].document \in DOMAIN documents
            /\ documents[up[p].document].status = "FAILED"
            /\ up[p].openai_file_id # NULL =>
                   /\ up[p].openai_file_id \in DOMAIN delete_attempts
                   /\ delete_attempts[up[p].openai_file_id] = 1

\* C9 case: the association raised, the deletion of the uploaded file was
\* attempted and failed, and the call has raised
UploadRaisedAfterFailedCleanup ==
    \E p \in DOMAIN up :
        /\ up[p].pc = "raised"
        /\ up[p].document # NoDocument
        /\ up[p].openai_file_id # NULL
        /\ up[p].openai_file_id \in remote_files
        /\ up[p].thrown = "RateLimitError"

\* C16: every Document's status is one of PENDING, PROCESSING, COMPLETE,
\* FAILED, and the Document created by an upload_document call is PENDING
\* while the OpenAI file upload of the call has not returned
StatusIsOneOfFourAndPendingUntilUploaded ==
    /\ \A d \in DOMAIN documents : documents[d].status \in Statuses
    /\ \A p \in DOMAIN up :
          up[p].pc = "upload" =>
              /\ up[p].document \in DOMAIN documents
              /\ documents[up[p].document].status = "PENDING"
              /\ documents[up[p].document].openai_file_id = NULL

\* C16 case: one call waits for its file upload with its Document PENDING
\* while the Document of another call has left PENDING
PendingDuringFileUpload ==
    \E p, q \in DOMAIN up :
        /\ up[p].pc = "upload"
        /\ documents[up[p].document].status = "PENDING"
        /\ up[q].pc = "returned"
        /\ documents[up[q].document].status = "COMPLETE"

\* a call leaves line 35 or earlier with VECTOR_STORE_ID unset
BeginsWithoutVectorStore(p) ==
    /\ env_vector_store_id = NULL
    /\ up[p].pc = "idle"
    /\ up'[p].pc # "idle"

\* C10: with VECTOR_STORE_ID unset upload_document raises ValueError and
\* has created no Document and no OpenAI file
UnsetVectorStoreRaisesValueError ==
    [][\A p \in DOMAIN up :
          BeginsWithoutVectorStore(p) =>
              /\ up'[p].pc = "raised"
              /\ up'[p].raised = "ValueError"
              /\ documents' = documents
              /\ remote_files' = remote_files]_vars

\* C10 case: a call raised ValueError for the unset VECTOR_STORE_ID with a
\* Document and its file stored
UploadRaisedValueError ==
    \E p \in DOMAIN up :
        /\ env_vector_store_id = NULL
        /\ up[p].pc = "raised"
        /\ up[p].raised = "ValueError"
        /\ documents # <<>>
        /\ remote_files # {}

\* ---------------------------------------------------------- specifications
InitChunk == EnterChunkText /\ EmptyDb /\ IdleSearch /\ IdleUpload /\ IdleDelete /\ IdleChroma /\ IdleRecorder
SpecChunk == InitChunk /\ [][NextChunk]_vars

InitSearch == IdleChunk /\ EmptyDb /\ IdleSearch /\ IdleUpload /\ IdleDelete /\ IdleChroma /\ IdleRecorder
SpecSearch == InitSearch /\ [][NextSearch]_vars

InitUpload == IdleChunk /\ IdleSearch /\ InitUploadState /\ IdleDelete /\ IdleChroma /\ IdleRecorder
SpecUpload == InitUpload /\ [][NextUpload]_vars

InitDelete == IdleChunk /\ IdleSearch /\ InitDeleteState /\ IdleChroma /\ IdleRecorder
SpecDelete == InitDelete /\ [][NextDelete]_vars

InitChroma == IdleChunk /\ EmptyDb /\ IdleSearch /\ IdleUpload /\ IdleDelete /\ IdleChroma /\ IdleRecorder
SpecChroma == InitChroma /\ [][NextChroma]_vars

InitRecorder == IdleChunk /\ EmptyDb /\ IdleSearch /\ IdleUpload /\ IdleDelete /\ IdleChroma /\ InitRecorderState
SpecRecorder == InitRecorder /\ [][NextRecorder]_vars

InitInsight == IdleChunk /\ EmptyDb /\ IdleSearch /\ IdleUpload /\ IdleDelete /\ IdleChroma /\ InitInsightState
SpecInsight == InitInsight /\ [][NextInsight]_vars

====
